---- MODULE Spec2Model ----
(***************************************************************************)
(* Model of headline_generation/utils/preprocessing.py: one call of        *)
(* vectorize_texts or of format_inputs, executed loop iteration by loop    *)
(* iteration.  Python lists are sequences (index k of Python is index k+1  *)
(* here); token ids are the naturals 0 .. NumIds-1.                        *)
(***************************************************************************)
EXTENDS Integers, Sequences, FiniteSets

\* ------------------------------------------------------------------ bounds
MaxPairs == 2
MaxBody == 5
MaxHline == 2
MaxMaxlen == 2
MaxStep == 2
NumIds == 3

\* ------------------------------------------------------- input vocabulary
\* word_idx_dct of a call of vectorize_texts: the words of the test fixture
\* that the mapping knows; every other word ("zzz") is out of vocabulary.
word_idx_dct == [w \in {"body1", "words", "and"} |->
                   CASE w = "body1" -> 0 [] w = "words" -> 1 [] w = "and" -> 2]

\* Tokenised documents handed to vectorize_texts.
Docs == { <<>>, <<"zzz">>, <<"words">>, <<"zzz", "words">>,
          <<"body1", "zzz", "and">>, <<"and", "body1">> }

\* Id sequences handed to format_inputs: non-empty, as vectorize_texts
\* produces them.  A body of length n is 0,1,2,..., a headline is
\* NumIds-1, NumIds-2, ... (both modulo NumIds).
BodyOf(n) == [i \in 1..n |-> (i - 1) % NumIds]

HlineOf(n) == [i \in 1..n |-> (NumIds * n - i) % NumIds]

BodyDocs == { BodyOf(n) : n \in 1..MaxBody }

HlineDocs == { HlineOf(n) : n \in 1..MaxHline }

SeqsUpTo(S, n) == UNION { [1..k -> S] : k \in 0..n }

\* ----------------------------------------------------------- Python helpers
Min(a, b) == IF a <= b THEN a ELSE b

\* s[a:b] for 0 <= a, 0 <= b: the slice is clamped to the list.
PySlice(s, a, b) == SubSeq(s, a + 1, Min(b, Len(s)))

\* a // b, floor division, for b # 0.
FloorDiv(a, b) == IF b > 0 THEN a \div b ELSE (0 - a) \div (0 - b)

\* list(range(start, stop, step)) for step # 0.
PyRange(start, stop, step) ==
  IF step > 0
    THEN IF stop <= start THEN <<>>
         ELSE [k \in 1..(((stop - start - 1) \div step) + 1) |-> start + (k - 1) * step]
    ELSE IF stop >= start THEN <<>>
         ELSE [k \in 1..(((start - stop - 1) \div (0 - step)) + 1) |-> start + (k - 1) * step]

\* zip(a, b): iteration stops with the shorter list.
ZipLen(a, b) == Min(Len(a), Len(b))

\* ------------------------------------------------------------------- state
VARIABLES
  fn,             \* the function called
  pc,             \* position in its code
  bodies,         \* vectorize_texts: argument
  headlines,      \* vectorize_texts: argument
  vec_bodies,     \* vectorize_texts: local list
  vec_headlines,  \* vectorize_texts: local list
  bodies_arr,     \* format_inputs: argument
  headlines_arr,  \* format_inputs: argument
  vocab_size,     \* format_inputs: argument
  maxlen,         \* format_inputs: argument
  step,           \* format_inputs: argument
  i,              \* number of zip() items consumed by the first loop
  master_arr,     \* format_inputs: local list of (clipped_body, len_hline)
  m,              \* index of the master_arr item of the outer second loop
  k,              \* index into range(0, len_hline, step) of the inner loop
  X_s,            \* format_inputs: rows of X_s
  ys,             \* format_inputs: rows of ys (each one id)
  y_s,            \* format_inputs: rows of y_s
  r,              \* number of rows of ys consumed by the one-hot loop
  ret,            \* the returned tuple
  master_src,     \* history: zip() index each master_arr item came from
  rows_src        \* history: <<master_arr index, idx>> of each emitted row

vars == <<fn, pc, bodies, headlines, vec_bodies, vec_headlines, bodies_arr,
          headlines_arr, vocab_size, maxlen, step, i, master_arr, m, k, X_s,
          ys, y_s, r, ret, master_src, rows_src>>

vtVars == <<bodies, headlines, vec_bodies, vec_headlines>>

fiArgs == <<bodies_arr, headlines_arr, vocab_size, maxlen, step>>

\* ------------------------------------------------------------ code pieces
\* _vec_txt: the ids of the words the mapping knows, in order.
RECURSIVE vec_txt(_, _)
vec_txt(words, dct) ==
  IF words = <<>> THEN <<>>
  ELSE LET rest == vec_txt(Tail(words), dct)
       IN  IF Head(words) \in DOMAIN dct THEN <<dct[Head(words)]>> \o rest
           ELSE rest

\* mutant of KeepPair: `or` in place of `and`
KeepPair_Either(vec_body, vec_headline) == vec_body # <<>> \/ vec_headline # <<>>

\* `if vec_body and vec_headline`: an empty list is falsy.
KeepPair(vec_body, vec_headline) == vec_body # <<>> /\ vec_headline # <<>>

\* mutant of Eligible: `<` in place of `<=`
Eligible_Strict(len_body, len_hline, ml, st) ==
  len_hline < FloorDiv(len_body - ml, st)

\* mutant of Eligible: maxlen not subtracted from the body's length
Eligible_NoMaxlen(len_body, len_hline, ml, st) ==
  len_hline <= FloorDiv(len_body, st)

\* `max_hline_len = (len_body - maxlen) // step; len_hline <= max_hline_len`
Eligible(len_body, len_hline, ml, st) ==
  len_hline <= FloorDiv(len_body - ml, st)

\* `clipped_body = body[:(maxlen + len_hline)]; clipped_body.extend(hline)`
ClippedBody(body, hline, ml) == PySlice(body, 0, ml + Len(hline)) \o hline

\* `range(0, len_hline, step)`; step = 0 never gets here, line 129 divides by
\* it first and master_arr is non-empty only after that division
IdxRange(len_hline, st) == PyRange(0, len_hline, st)

\* mutant of XRow: the window starts one id late
XRow_Shifted(body_n_hline, idx, ml) == PySlice(body_n_hline, idx + 1, idx + 1 + ml)

\* `X = body_n_hline[X_start:X_end]`
XRow(body_n_hline, idx, ml) == PySlice(body_n_hline, idx, idx + ml)

\* mutant of YStart: the headline's length not added
YStart_NoGap(idx, ml, len_hline) == idx + ml

\* `y_start = idx + maxlen + len_hline`
YStart(idx, ml, len_hline) == idx + ml + len_hline

\* `y = body_n_hline[y_start:y_end]`
YRow(body_n_hline, idx, ml, len_hline) ==
  PySlice(body_n_hline, YStart(idx, ml, len_hline), YStart(idx, ml, len_hline) + 1)

\* `np.zeros((X_s.shape[0], vocab_size))`: one row
ZeroRow(width) == [c \in 0..(width - 1) |-> 0]

\* mutant of SetOne: always column 0
SetOne_First(row, y) == [row EXCEPT ![0] = 1]

\* `y_s[idx, y] = 1` for a row y of ys
SetOne(row, y) == [row EXCEPT ![y[1]] = 1]

\* ------------------------------------------------------------------- Init
NoFmt ==
  /\ bodies_arr = <<>> /\ headlines_arr = <<>>
  /\ vocab_size = 0 /\ maxlen = 0 /\ step = 0

NoVec == bodies = <<>> /\ headlines = <<>>

Locals ==
  /\ vec_bodies = <<>> /\ vec_headlines = <<>>
  /\ i = 0 /\ master_arr = <<>> /\ m = 0 /\ k = 0
  /\ X_s = <<>> /\ ys = <<>> /\ y_s = <<>> /\ r = 0
  /\ ret = <<>> /\ master_src = <<>> /\ rows_src = <<>>

\* vectorize_texts(bodies, headlines, word_idx_dct), equal-length lists
InitVec ==
  /\ fn = "vectorize_texts" /\ pc = "vt_loop"
  /\ \E ps \in SeqsUpTo(Docs \X Docs, MaxPairs) :
       /\ bodies = [j \in 1..Len(ps) |-> ps[j][1]]
       /\ headlines = [j \in 1..Len(ps) |-> ps[j][2]]
  /\ NoFmt /\ Locals

\* format_inputs on paired lists with maxlen >= 1 and step >= 1
InitFmt ==
  /\ fn = "format_inputs" /\ pc = "fi_alloc"
  /\ \E ps \in SeqsUpTo(BodyDocs \X HlineDocs, MaxPairs) :
       /\ bodies_arr = [j \in 1..Len(ps) |-> ps[j][1]]
       /\ headlines_arr = [j \in 1..Len(ps) |-> ps[j][2]]
  /\ vocab_size \in {NumIds - 1, NumIds}
  /\ maxlen \in 1..MaxMaxlen
  /\ step \in 1..MaxStep
  /\ NoVec /\ Locals

\* format_inputs with any maxlen and step, at most one pair, and possibly one
\* more body or headline than there are pairs
InitFmtAny ==
  /\ fn = "format_inputs" /\ pc = "fi_alloc"
  /\ \E ps \in SeqsUpTo(BodyDocs \X HlineDocs, 1) :
     \E xb \in SeqsUpTo(BodyDocs, 1), xh \in SeqsUpTo(HlineDocs, 1) :
       /\ xb = <<>> \/ xh = <<>>
       /\ bodies_arr = [j \in 1..Len(ps) |-> ps[j][1]] \o xb
       /\ headlines_arr = [j \in 1..Len(ps) |-> ps[j][2]] \o xh
  /\ vocab_size = NumIds
  /\ maxlen \in (0 - 1)..MaxMaxlen
  /\ step \in (0 - 1)..MaxStep
  /\ NoVec /\ Locals

Init == InitVec \/ InitFmt \/ InitFmtAny

\* ------------------------------------------------------- vectorize_texts
\* one iteration of `for body, headline in zip(bodies, headlines)`
VecStep ==
  /\ pc = "vt_loop" /\ i < ZipLen(bodies, headlines)
  /\ LET vec_body == vec_txt(bodies[i + 1], word_idx_dct)
         vec_headline == vec_txt(headlines[i + 1], word_idx_dct)
     IN  IF KeepPair(vec_body, vec_headline)
           THEN /\ vec_bodies' = Append(vec_bodies, vec_body)
                /\ vec_headlines' = Append(vec_headlines, vec_headline)
           ELSE UNCHANGED <<vec_bodies, vec_headlines>>
  /\ i' = i + 1
  /\ UNCHANGED <<fn, pc, bodies, headlines, fiArgs, master_arr, m, k, X_s, ys,
                 y_s, r, ret, master_src, rows_src>>

\* loop exit, np.array(...) of both lists, return
VecReturn ==
  /\ pc = "vt_loop" /\ i = ZipLen(bodies, headlines)
  /\ ret' = <<vec_bodies, vec_headlines>>
  /\ pc' = "done"
  /\ UNCHANGED <<fn, vtVars, fiArgs, i, master_arr, m, k, X_s, ys, y_s, r,
                 master_src, rows_src>>

\* --------------------------------------------------------- format_inputs
\* `X_s = np.zeros((0, maxlen))`: numpy rejects a negative dimension
FmtAlloc ==
  /\ pc = "fi_alloc"
  /\ pc' = IF maxlen < 0 THEN "error" ELSE "fi_filter"
  /\ UNCHANGED <<fn, vtVars, fiArgs, i, master_arr, m, k, X_s, ys, y_s, r, ret,
                 master_src, rows_src>>

\* one iteration of `for body, hline in zip(bodies_arr, headlines_arr)`
FmtFilter ==
  /\ pc = "fi_filter" /\ i < ZipLen(bodies_arr, headlines_arr)
  /\ LET body == bodies_arr[i + 1]
         hline == headlines_arr[i + 1]
     IN  IF step = 0
           THEN /\ pc' = "error"   \* ZeroDivisionError
                /\ UNCHANGED <<i, master_arr, master_src>>
           ELSE /\ pc' = pc
                /\ i' = i + 1
                /\ IF Eligible(Len(body), Len(hline), maxlen, step)
                     THEN /\ master_arr' = Append(master_arr,
                                 [seq |-> ClippedBody(body, hline, maxlen),
                                  len_hline |-> Len(hline)])
                          /\ master_src' = Append(master_src, i + 1)
                     ELSE UNCHANGED <<master_arr, master_src>>
  /\ UNCHANGED <<fn, vtVars, fiArgs, m, k, X_s, ys, y_s, r, ret, rows_src>>

\* exit of the first loop, entry of `for body_n_hline, len_hline in master_arr`
FmtFilterDone ==
  /\ pc = "fi_filter" /\ i = ZipLen(bodies_arr, headlines_arr)
  /\ pc' = "fi_window" /\ m' = 1 /\ k' = 1
  /\ UNCHANGED <<fn, vtVars, fiArgs, i, master_arr, X_s, ys, y_s, r, ret,
                 master_src, rows_src>>

\* one iteration of `for idx in range(0, len_hline, step)`; np.concatenate
\* rejects a row whose width differs from the matrix's
FmtWindow ==
  /\ pc = "fi_window" /\ m <= Len(master_arr)
  /\ LET body_n_hline == master_arr[m].seq
         len_hline == master_arr[m].len_hline
         rng == IdxRange(len_hline, step)
     IN  /\ k <= Len(rng)
         /\ LET idx == rng[k]
                X == XRow(body_n_hline, idx, maxlen)
                y == YRow(body_n_hline, idx, maxlen, len_hline)
            IN  IF Len(X) # maxlen
                  THEN /\ pc' = "error"
                       /\ UNCHANGED <<k, X_s, ys, rows_src>>
                  ELSE IF Len(y) # 1
                    THEN /\ pc' = "error"
                         /\ X_s' = Append(X_s, X)
                         /\ UNCHANGED <<k, ys, rows_src>>
                    ELSE /\ pc' = pc
                         /\ X_s' = Append(X_s, X)
                         /\ ys' = Append(ys, y)
                         /\ rows_src' = Append(rows_src, <<m, idx>>)
                         /\ k' = k + 1
  /\ UNCHANGED <<fn, vtVars, fiArgs, i, master_arr, m, y_s, r, ret, master_src>>

\* exit of the inner loop: next item of master_arr
FmtNextItem ==
  /\ pc = "fi_window" /\ m <= Len(master_arr)
  /\ k > Len(IdxRange(master_arr[m].len_hline, step))
  /\ m' = m + 1 /\ k' = 1
  /\ UNCHANGED <<fn, pc, vtVars, fiArgs, i, master_arr, X_s, ys, y_s, r, ret,
                 master_src, rows_src>>

\* exit of the outer loop, `y_s = np.zeros((X_s.shape[0], vocab_size))`
FmtWindowDone ==
  /\ pc = "fi_window" /\ m > Len(master_arr)
  /\ y_s' = [j \in 1..Len(X_s) |-> ZeroRow(vocab_size)]
  /\ r' = 0
  /\ pc' = "fi_onehot"
  /\ UNCHANGED <<fn, vtVars, fiArgs, i, master_arr, m, k, X_s, ys, ret,
                 master_src, rows_src>>

\* one iteration of `for idx, y in enumerate(ys)`: an id outside the row is
\* an IndexError
FmtOneHot ==
  /\ pc = "fi_onehot" /\ r < Len(ys)
  /\ LET y == ys[r + 1]
     IN  IF y[1] >= vocab_size
           THEN /\ pc' = "error"
                /\ UNCHANGED <<y_s, r>>
           ELSE /\ pc' = pc
                /\ y_s' = [y_s EXCEPT ![r + 1] = SetOne(y_s[r + 1], y)]
                /\ r' = r + 1
  /\ UNCHANGED <<fn, vtVars, fiArgs, i, master_arr, m, k, X_s, ys, ret,
                 master_src, rows_src>>

\* `return X_s, y_s`
FmtReturn ==
  /\ pc = "fi_onehot" /\ r = Len(ys)
  /\ ret' = <<X_s, y_s>>
  /\ pc' = "done"
  /\ UNCHANGED <<fn, vtVars, fiArgs, i, master_arr, m, k, X_s, ys, y_s, r,
                 master_src, rows_src>>

Next ==
  \/ VecStep \/ VecReturn
  \/ FmtAlloc \/ FmtFilter \/ FmtFilterDone
  \/ FmtWindow \/ FmtNextItem \/ FmtWindowDone
  \/ FmtOneHot \/ FmtReturn

Spec == Init /\ [][Next]_vars

\* ======================================================== properties
\* the j-th pair that zip() yields to format_inputs
B(j) == bodies_arr[j]

H(j) == headlines_arr[j]

NPairs == ZipLen(bodies_arr, headlines_arr)

ValidCfg == fn = "format_inputs" /\ maxlen >= 1 /\ step >= 1

\* the eligibility rule as the specification words it
Retained(j) == Len(H(j)) <= (Len(B(j)) - maxlen) \div step

\* the window loop has run to its end
WindowsDone == pc \in {"fi_onehot", "done"}

\* the pair, the master_arr item and the offset that row n was cut from
RowItem(n) == master_arr[rows_src[n][1]]

RowPair(n) == master_src[rows_src[n][1]]

RowIdx(n) == rows_src[n][2]

RowsOf(j) == { n \in 1..Len(rows_src) : RowPair(n) = j }

\* C1: with maxlen >= 1 and step >= 1 a pair (b, h) contributes rows iff
\* len(h) <= (len(b) - maxlen) // step; a pair with len(b) < maxlen is
\* dropped, and a dropped pair contributes no row.
C1_Eligibility ==
  ValidCfg =>
    /\ \A n \in 1..Len(rows_src) :
         /\ Retained(RowPair(n))
         /\ Len(B(RowPair(n))) >= maxlen
    /\ WindowsDone => \A j \in 1..NPairs : (RowsOf(j) # {}) <=> Retained(j)

C1_Witness ==
  /\ ValidCfg /\ pc = "done" /\ NPairs = 2
  /\ Len(B(1)) < maxlen /\ RowsOf(1) = {}
  /\ Retained(2) /\ Len(H(2)) = (Len(B(2)) - maxlen) \div step
  /\ RowsOf(2) # {}

RECURSIVE LawRows(_)
LawRows(j) ==
  IF j = 0 THEN 0
  ELSE LawRows(j - 1)
         + (IF Retained(j) THEN Len(PyRange(0, Len(H(j)) + 1, step)) ELSE 0)

\* C3 as claimed: X and Y have as many rows as the sum, over the retained
\* pairs, of len(range(0, len_h + 1, step)).
C3_RowCountLaw ==
  (ValidCfg /\ pc = "done") =>
    /\ Len(ret[1]) = LawRows(NPairs)
    /\ Len(ret[2]) = LawRows(NPairs)

\* C4 as claimed: the windowed sequence of a retained pair is
\* b[0 : maxlen+len_h] ++ [marker] ++ h, of length maxlen + 2*len_h + 1.
C4_MarkerInSeq ==
  ValidCfg =>
    \A q \in 1..Len(master_arr) :
      LET b == B(master_src[q])
          h == H(master_src[q])
      IN  /\ Len(master_arr[q].seq) = maxlen + 2 * Len(h) + 1
          /\ \E marker \in 0..NumIds :
               master_arr[q].seq = SubSeq(b, 1, maxlen + Len(h)) \o <<marker>> \o h

\* C5: when every target id is in [0, vocab_size), Y has one row per row of X,
\* each of width vocab_size, with a single 1 in the column of the target id of
\* the same row and 0 elsewhere.
C5_OneHot ==
  (/\ fn = "format_inputs" /\ pc = "done"
   /\ \A n \in 1..Len(ys) : ys[n][1] \in 0..(vocab_size - 1)) =>
    /\ Len(ret[2]) = Len(ret[1]) /\ Len(ret[2]) = Len(ys)
    /\ \A n \in 1..Len(ret[2]) :
         /\ DOMAIN ret[2][n] = 0..(vocab_size - 1)
         /\ \A c \in DOMAIN ret[2][n] :
              ret[2][n][c] = (IF c = ys[n][1] THEN 1 ELSE 0)
         /\ Cardinality({ c \in DOMAIN ret[2][n] : ret[2][n][c] = 1 }) = 1

C5_Witness ==
  /\ fn = "format_inputs" /\ pc = "done" /\ Len(ret[2]) >= 2
  /\ \E n1, n2 \in 1..Len(ys) : ys[n1][1] # ys[n2][1] /\ ys[n1][1] > 0

\* a document with at least one in-vocabulary token
HasKnown(doc) == \E p \in 1..Len(doc) : doc[p] \in DOMAIN word_idx_dct

KeptPairs == { j \in 1..Len(bodies) : HasKnown(bodies[j]) /\ HasKnown(headlines[j]) }

\* the n-th kept pair in input order
NthKept(n) == CHOOSE j \in KeptPairs : Cardinality({ x \in KeptPairs : x <= j }) = n

\* C6: vectorize_texts keeps pair i iff both vectorized sides are non-empty;
\* the outputs have equal length, at most the input's; their k-th entries are
\* the vectorized sides of the k-th kept pair in input order; it never fails.
C6_VectorizePairs ==
  (fn = "vectorize_texts") =>
    /\ pc # "error"
    /\ pc = "done" =>
         /\ Len(ret) = 2
         /\ Len(ret[1]) = Len(ret[2])
         /\ Len(ret[1]) = Cardinality(KeptPairs)
         /\ Len(ret[1]) <= Len(bodies)
         /\ \A n \in 1..Len(ret[1]) :
              /\ ret[1][n] = vec_txt(bodies[NthKept(n)], word_idx_dct)
              /\ ret[2][n] = vec_txt(headlines[NthKept(n)], word_idx_dct)
              /\ ret[1][n] # <<>> /\ ret[2][n] # <<>>

C6_Witness ==
  /\ fn = "vectorize_texts" /\ pc = "done" /\ Len(bodies) = 2
  /\ HasKnown(bodies[1]) /\ ~HasKnown(headlines[1])
  /\ KeptPairs = {2} /\ Len(ret[1]) = 1
  /\ Len(ret[1][1]) < Len(bodies[2])

\* the retained pairs among the first j, in input order
RECURSIVE RetainedBodies(_)
RetainedBodies(j) ==
  IF j = 0 THEN <<>>
  ELSE RetainedBodies(j - 1) \o (IF Retained(j) THEN <<B(j)>> ELSE <<>>)

RECURSIVE RetainedHeadlines(_)
RetainedHeadlines(j) ==
  IF j = 0 THEN <<>>
  ELSE RetainedHeadlines(j - 1) \o (IF Retained(j) THEN <<H(j)>> ELSE <<>>)

\* C7 as claimed: format_inputs returns X, Y, filtered_bodies and
\* filtered_headlines, the last two being the retained pairs' original bodies
\* and headlines in input order.
C7_FilteredLists ==
  (ValidCfg /\ pc = "done") =>
    /\ Len(ret) = 4
    /\ ret[3] = RetainedBodies(NPairs)
    /\ ret[4] = RetainedHeadlines(NPairs)

\* C8 as claimed: with maxlen < 1, step < 1 or lists of different lengths the
\* call never returns a result and emits no window.
C8_ConfigRejected ==
  (/\ fn = "format_inputs"
   /\ (maxlen < 1 \/ step < 1 \/ Len(bodies_arr) # Len(headlines_arr))) =>
    /\ pc # "done"
    /\ X_s = <<>>

====
